---------------------------- MODULE Spec2Model ----------------------------
(***************************************************************************)
(* A model of the visual regression engine of sitetester:                  *)
(*   - compare_dom_elements (src/utils/dom_diff.py), the DOM differ;       *)
(*   - process_image_diff (src/main.py), the pixel differ;                 *)
(*   - the run of a visual test (trigger_visual_test, compare_images_logic *)
(*     and process_image_diff) with the requests that stop or delete its   *)
(*     session, and get_any_results, which reads what the run left;        *)
(*   - the element extraction script compare_images_logic evaluates in the *)
(*     page.                                                               *)
(* Each part has its own specification (Spec for the DOM differ, SpecPixel *)
(* and SpecScore for the pixel differ on small and on larger images,       *)
(* SpecVisual for the run, SpecExtract for the extraction script); the     *)
(* variables of the other parts stay at their idle values.                 *)
(***************************************************************************)
EXTENDS Integers, Sequences, FiniteSets, TLC

VARIABLES
    base_elements,      \* argument of compare_dom_elements (a list of element dicts)
    compare_elements,   \* argument of compare_dom_elements
    unmatched_base,     \* dict index -> base element, keys 0-based as in enumerate()
    diffs,              \* the list being built and returned
    match_index,        \* the local of the last iteration of the compare loop (-1: none)
    k,                  \* number of compare elements the for loop has consumed
    pc,                 \* "compare" (loop of lines 24-78), "removed" (81-87), "done"
    calls,              \* how many calls of compare_dom_elements have been entered
    prev_diffs,         \* what the previous call returned (<<>> before any return)
    img1,               \* process_image_diff: the base image (RGB), resized in place
    img2,               \* the compare image
    diff_pixels,        \* the pixels of diff_img
    diff_count,         \* the divergence counter
    px,                 \* number of pixels the nested loops have handled (row by row)
    diff_score,         \* the score (-1: not computed yet)
    ppc,                \* "opened" (after line 3096), "loop" (3114-3125), "done" (3130)
    opened_sizes,       \* history: <<width, height>> of the two images as opened
    audit_sessions,     \* table AuditSession: rows [session_id, status, completed]
    visual_results,     \* table VisualAuditResult: rows [session_id, diff_score]
    files,              \* session id -> the entries of diffs/{session_id} ("." is the folder)
    diff_report,        \* session id -> the list in diff_report.json, while the file exists
    wpc,                \* session id -> where its comparison run stands
    result,             \* session id -> the score of the row db.add() holds (-1: none)
    deleting,           \* the sessions whose delete_session is between cleanup and commit
    printed,            \* session id -> the messages the run's except clauses printed
    trace,              \* history: session id -> the steps of the run that have ended
    body,               \* the element nodes under document.body: [parent, node]
    currentNode,        \* walker.currentNode (0: document.body, the root)
    elements,           \* the list the extraction script builds
    xpc                 \* "walking" (lines 3014-3045), "returned" (3046), "raised"

domVars == <<base_elements, compare_elements, unmatched_base, diffs,
             match_index, k, pc, calls, prev_diffs>>

pixelVars == <<img1, img2, diff_pixels, diff_count, px, diff_score, ppc, opened_sizes>>

sessionVars == <<audit_sessions, visual_results, files, diff_report, wpc, result,
                 deleting, printed, trace>>

extractVars == <<body, currentNode, elements, xpc>>

vars == <<domVars, pixelVars, sessionVars, extractVars>>

-----------------------------------------------------------------------------
(* Bounds of the inputs: the lengths of the two snapshots, and the number   *)
(* of pixels (width * height) of an image.                                  *)

MaxBase == 2
MaxCompare == 2
MaxPixels == 3

-----------------------------------------------------------------------------
(* Element snapshots, as the extraction script builds them                  *)
(* (src/main.py 3024-3043): tag, id, text, rect and the six styles.         *)

target_styles ==
    <<"color", "background-color", "font-family", "font-size", "font-weight", "text-align">>

StyleProps == {target_styles[i] : i \in 1..Len(target_styles)}

StyleBlack ==
    [p \in StyleProps |->
        CASE p = "color" -> "rgb(0, 0, 0)"
          [] p = "background-color" -> "rgba(0, 0, 0, 0)"
          [] p = "font-family" -> "serif"
          [] p = "font-size" -> "16px"
          [] p = "font-weight" -> "400"
          [] p = "text-align" -> "start"]

StyleRed == [StyleBlack EXCEPT !["color"] = "rgb(255, 0, 0)"]

StyleBig == [StyleBlack EXCEPT !["font-size"] = "32px", !["text-align"] = "center"]

\* An element without its rect: what the matching and the style comparison read.
Kind(tag, id, text, styles) == [tag |-> tag, id |-> id, text |-> text, styles |-> styles]

\* The element kinds the inputs are drawn from: the same tag and text with
\* different styles, with and without an id, the same id under different
\* texts and under different tags, and empty ids under different texts.
ElementKinds ==
    { Kind("H1", "", "Hello", StyleBlack),
      Kind("H1", "", "Hello", StyleRed),
      Kind("H1", "hero", "Hello", StyleBlack),
      Kind("H1", "hero", "Buy", StyleRed),
      Kind("BUTTON", "hero", "Hello", StyleBlack),
      Kind("BUTTON", "", "Buy", StyleBlack),
      Kind("BUTTON", "", "Hello", StyleBig) }

\* rect is opaque to the differ (it is only copied into the entries), so
\* every captured element gets a rect of its own: x tells the page
\* (0 base, 1 compare), y the position in the document.
RectAt(page, i) == [x |-> page, y |-> i, width |-> 100, height |-> 20]

Element(kind, page, i) ==
    [tag |-> kind.tag, id |-> kind.id, text |-> kind.text,
     rect |-> RectAt(page, i), styles |-> kind.styles]

KindOf(el) == Kind(el.tag, el.id, el.text, el.styles)

SeqsUpTo(S, n) == UNION {[1..m -> S] : m \in 0..n}

Snapshot(kinds, page) == [i \in 1..Len(kinds) |-> Element(kinds[i], page, i - 1)]

-----------------------------------------------------------------------------
(* compare_dom_elements, src/utils/dom_diff.py                              *)

\* Line 19: unmatched_base = {i: el for i, el in enumerate(base_elements)}
Enumerate(els) == [i \in 0..(Len(els) - 1) |-> els[i + 1]]

\* Line 30: the id test of priority 1.
IdHit(base_el, comp_el) == base_el.id = comp_el.id /\ base_el.tag = comp_el.tag

\* Mutant: the text test without the tag.
TextHitAnyTag(base_el, comp_el) == base_el.text = comp_el.text

\* Line 37: the tag and text test of priority 2.
TextHit(base_el, comp_el) == base_el.tag = comp_el.tag /\ base_el.text = comp_el.text

\* Mutant: the id search without the test for an empty id.
HasIdAlways(comp_el) == TRUE

\* Line 28: comp_el.get('id') is truthy for a non-empty id.
HasId(comp_el) == comp_el.id # ""

\* Lines 29-32. The keys of a dict built by enumerate() and only popped
\* from iterate in ascending order; the loop breaks at the first hit.
RECURSIVE ScanId(_, _, _, _)
ScanId(unmatched, comp_el, i, n) ==
    IF i >= n THEN -1
    ELSE IF i \in DOMAIN unmatched /\ IdHit(unmatched[i], comp_el) THEN i
    ELSE ScanId(unmatched, comp_el, i + 1, n)

\* Lines 36-39.
RECURSIVE ScanText(_, _, _, _)
ScanText(unmatched, comp_el, i, n) ==
    IF i >= n THEN -1
    ELSE IF i \in DOMAIN unmatched /\ TextHit(unmatched[i], comp_el) THEN i
    ELSE ScanText(unmatched, comp_el, i + 1, n)

\* Lines 25-39: the index of the match of comp_el in the working set, or -1.
FindMatch(unmatched, comp_el, n) ==
    LET byId == IF HasId(comp_el) THEN ScanId(unmatched, comp_el, 0, n) ELSE -1
    IN  IF byId # -1 THEN byId ELSE ScanText(unmatched, comp_el, 0, n)

\* Mutant: the match stays in the working set.
PopKeep(unmatched, i) == unmatched

\* dict.pop(key): the dict without the key.
Pop(unmatched, i) == [j \in (DOMAIN unmatched) \ {i} |-> unmatched[j]]

\* Lines 51-61: the loop over target_styles, adding one key per differing property.
RECURSIVE StyleDiffsFrom(_, _, _)
StyleDiffsFrom(base_styles, comp_styles, i) ==
    IF i > Len(target_styles) THEN <<>>
    ELSE LET prop == target_styles[i]
             val1 == base_styles[prop]
             val2 == comp_styles[prop]
             rest == StyleDiffsFrom(base_styles, comp_styles, i + 1)
         IN  IF val1 # val2
             THEN (prop :> [old |-> val1, new |-> val2]) @@ rest
             ELSE rest

\* Mutant: the last property of the list is not compared.
StyleDiffsButLast(base_el, comp_el) ==
    [prop \in {q \in StyleProps \ {"text-align"} : base_el.styles[q] # comp_el.styles[q]} |->
        [old |-> base_el.styles[prop], new |-> comp_el.styles[prop]]]

StyleDiffs(base_el, comp_el) == StyleDiffsFrom(base_el.styles, comp_el.styles, 1)

\* Lines 64-70.
StyleChangeEntry(comp_el, style_diffs) ==
    [type |-> "style_change", rect |-> comp_el.rect, diffs |-> style_diffs,
     tag |-> comp_el.tag, text |-> comp_el.text]

\* Lines 73-78.
AddedEntry(comp_el) ==
    [type |-> "added", rect |-> comp_el.rect, tag |-> comp_el.tag, text |-> comp_el.text]

\* Lines 82-87.
RemovedEntry(base_el) ==
    [type |-> "removed", rect |-> base_el.rect, tag |-> base_el.tag, text |-> base_el.text]

\* Mutant: an element without a match is not reported.
EntriesForNoAdded(unmatched, comp_el, m) ==
    IF m # -1
    THEN LET style_diffs == StyleDiffs(unmatched[m], comp_el)
         IN  IF DOMAIN style_diffs # {}
             THEN <<StyleChangeEntry(comp_el, style_diffs)>>
             ELSE <<>>
    ELSE <<>>

\* Mutant: a style change is reported at the base element's rect and text.
EntriesForBaseElement(unmatched, comp_el, m) ==
    IF m # -1
    THEN LET style_diffs == StyleDiffs(unmatched[m], comp_el)
         IN  IF DOMAIN style_diffs # {}
             THEN <<StyleChangeEntry(unmatched[m], style_diffs)>>
             ELSE <<>>
    ELSE <<AddedEntry(comp_el)>>

\* Lines 41-78: what one iteration appends to diffs.
EntriesFor(unmatched, comp_el, m) ==
    IF m # -1
    THEN LET style_diffs == StyleDiffs(unmatched[m], comp_el)
         IN  IF DOMAIN style_diffs # {}
             THEN <<StyleChangeEntry(comp_el, style_diffs)>>
             ELSE <<>>
    ELSE <<AddedEntry(comp_el)>>

\* Mutant: the first key of the dict is skipped.
RECURSIVE RemovedFromSkipFirst(_, _, _)
RemovedFromSkipFirst(unmatched, i, n) ==
    IF i >= n THEN <<>>
    ELSE IF i \in DOMAIN unmatched /\ i >= 1
         THEN <<RemovedEntry(unmatched[i])>> \o RemovedFromSkipFirst(unmatched, i + 1, n)
         ELSE RemovedFromSkipFirst(unmatched, i + 1, n)

\* Lines 81-87: one removed entry per value left in the dict, in key order.
RECURSIVE RemovedFrom(_, _, _)
RemovedFrom(unmatched, i, n) ==
    IF i >= n THEN <<>>
    ELSE IF i \in DOMAIN unmatched
         THEN <<RemovedEntry(unmatched[i])>> \o RemovedFrom(unmatched, i + 1, n)
         ELSE RemovedFrom(unmatched, i + 1, n)

\* Lines 15-19: the state on entry to the loop.
Enter(base, compare) ==
    /\ diffs' = <<>>
    /\ unmatched_base' = Enumerate(base)
    /\ match_index' = -1
    /\ k' = 0
    /\ pc' = IF Len(compare) = 0 THEN "removed" ELSE "compare"

InitDom ==
    /\ \E bk \in SeqsUpTo(ElementKinds, MaxBase) : base_elements = Snapshot(bk, 0)
    /\ \E ck \in SeqsUpTo(ElementKinds, MaxCompare) : compare_elements = Snapshot(ck, 1)
    /\ diffs = <<>>
    /\ unmatched_base = Enumerate(base_elements)
    /\ match_index = -1
    /\ k = 0
    /\ pc = IF Len(compare_elements) = 0 THEN "removed" ELSE "compare"
    /\ calls = 1
    /\ prev_diffs = <<>>

\* Mutant: the match is popped from the caller's list as well.
ProcessCompareInPlace ==
    /\ pc = "compare"
    /\ LET comp_el == compare_elements[k + 1]
           m == FindMatch(unmatched_base, comp_el, Len(base_elements))
       IN  /\ match_index' = m
           /\ unmatched_base' = IF m # -1 THEN Pop(unmatched_base, m) ELSE unmatched_base
           /\ diffs' = diffs \o EntriesFor(unmatched_base, comp_el, m)
           /\ base_elements' =
                 IF m # -1
                 THEN [i \in 1..(Len(base_elements) - 1) |->
                          IF i <= m THEN base_elements[i] ELSE base_elements[i + 1]]
                 ELSE base_elements
    /\ k' = k + 1
    /\ pc' = IF k + 1 = Len(compare_elements) THEN "removed" ELSE "compare"
    /\ UNCHANGED <<compare_elements, calls, prev_diffs>>
    /\ UNCHANGED <<pixelVars, sessionVars, extractVars>>

\* Lines 24-78: one iteration of the loop over compare_elements.
ProcessCompare ==
    /\ pc = "compare"
    /\ LET comp_el == compare_elements[k + 1]
           m == FindMatch(unmatched_base, comp_el, Len(base_elements))
       IN  /\ match_index' = m
           /\ unmatched_base' = IF m # -1 THEN Pop(unmatched_base, m) ELSE unmatched_base
           /\ diffs' = diffs \o EntriesFor(unmatched_base, comp_el, m)
    /\ k' = k + 1
    /\ pc' = IF k + 1 = Len(compare_elements) THEN "removed" ELSE "compare"
    /\ UNCHANGED <<base_elements, compare_elements, calls, prev_diffs>>
    /\ UNCHANGED <<pixelVars, sessionVars, extractVars>>

\* Mutant: the removed entries are put in front of the list.
EmitRemovedFirst ==
    /\ pc = "removed"
    /\ diffs' = RemovedFrom(unmatched_base, 0, Len(base_elements)) \o diffs
    /\ pc' = "done"
    /\ UNCHANGED <<base_elements, compare_elements, unmatched_base, match_index, k,
                   calls, prev_diffs>>
    /\ UNCHANGED <<pixelVars, sessionVars, extractVars>>

\* Lines 80-89: the loop over the remaining base elements, and the return.
EmitRemoved ==
    /\ pc = "removed"
    /\ diffs' = diffs \o RemovedFrom(unmatched_base, 0, Len(base_elements))
    /\ pc' = "done"
    /\ UNCHANGED <<base_elements, compare_elements, unmatched_base, match_index, k,
                   calls, prev_diffs>>
    /\ UNCHANGED <<pixelVars, sessionVars, extractVars>>

\* The caller calls again with the lists it passed before
\* (the diff is recomputed on every comparison).
CallAgain ==
    /\ pc = "done"
    /\ calls = 1
    /\ calls' = 2
    /\ prev_diffs' = diffs
    /\ Enter(base_elements, compare_elements)
    /\ UNCHANGED <<base_elements, compare_elements>>
    /\ UNCHANGED <<pixelVars, sessionVars, extractVars>>

-----------------------------------------------------------------------------
(* IEEE 754 doubles, as far as lines 3125 and 3130 use them: the quotient   *)
(* of two integers, the product of a double and an integer, both rounded    *)
(* to nearest (ties to even), and int()'s truncation.  A double is its 53   *)
(* mantissa bits (most significant first, all 0 for zero) and the exponent  *)
(* of its last bit: value = mantissa * 2^exp.                               *)

MantissaBits == 53

Zeros(n) == [i \in 1..n |-> 0]

FloatZero == [bits |-> Zeros(MantissaBits), exp |-> 0]

IsZero(f) == \A i \in 1..Len(f.bits) : f.bits[i] = 0

\* Long division: acc followed by n more binary digits of r / t
\* (0 <= r < t), and the remainder left.
RECURSIVE LongDiv(_, _, _, _)
LongDiv(r, t, n, acc) ==
    IF n = 0 THEN [bits |-> acc, rem |-> r]
    ELSE IF 2 * r >= t
         THEN LongDiv(2 * r - t, t, n - 1, Append(acc, 1))
         ELSE LongDiv(2 * r, t, n - 1, Append(acc, 0))

\* The number of zero digits of r / t (0 < r < t) after the binary point.
RECURSIVE LeadingZeros(_, _)
LeadingZeros(r, t) == IF 2 * r >= t THEN 0 ELSE 1 + LeadingZeros(2 * r, t)

RECURSIVE Pow2(_)
Pow2(n) == IF n = 0 THEN 1 ELSE 2 * Pow2(n - 1)

\* bits + 1, of the same length; of all ones it is all zeros (the carry is lost).
RECURSIVE Increment(_)
Increment(bits) ==
    IF bits = <<>> THEN <<>>
    ELSE LET n == Len(bits)
         IN  IF bits[n] = 0
             THEN [bits EXCEPT ![n] = 1]
             ELSE Increment(SubSeq(bits, 1, n - 1)) \o <<0>>

\* Round to nearest, ties to even: kept are the 53 digits kept, exp the
\* exponent of the last of them, up whether what was dropped is over a
\* half, tie whether it is exactly a half.
RoundNearestEven(kept, exp, up, tie) ==
    IF up \/ (tie /\ kept[Len(kept)] = 1)
    THEN IF \A i \in 1..Len(kept) : kept[i] = 1
         THEN [bits |-> <<1>> \o Zeros(Len(kept) - 1), exp |-> exp + 1]
         ELSE [bits |-> Increment(kept), exp |-> exp]
    ELSE [bits |-> kept, exp |-> exp]

\* float(c) / float(t) for integers 0 <= c <= t, t >= 1 (Python's true division).
FloatDiv(c, t) ==
    IF c = 0 THEN FloatZero
    ELSE LET z == LeadingZeros(c, 2 * t)
             d == LongDiv(c * Pow2(z), 2 * t, MantissaBits, <<>>)
         IN  RoundNearestEven(d.bits, 1 - (z + MantissaBits),
                              2 * d.rem > 2 * t, 2 * d.rem = 2 * t)

\* The binary digits of n >= 0, most significant first (none for 0).
RECURSIVE Binary(_)
Binary(n) == IF n = 0 THEN <<>> ELSE Binary(n \div 2) \o <<n % 2>>

\* The digits of bits * n: the digits from the i-th down are multiplied
\* one by one, carry is what the digits after them carried over, acc the
\* digits of the product found so far.
RECURSIVE MulBits(_, _, _, _, _)
MulBits(bits, n, i, carry, acc) ==
    IF i = 0 THEN Binary(carry) \o acc
    ELSE IF (bits[i] * n + carry) % 2 = 1
         THEN MulBits(bits, n, i - 1, (bits[i] * n + carry) \div 2, <<1>> \o acc)
         ELSE MulBits(bits, n, i - 1, (bits[i] * n + carry) \div 2, <<0>> \o acc)

\* f * float(n) for an integer n >= 0.
FloatMulInt(f, n) ==
    IF n = 0 \/ IsZero(f) THEN FloatZero
    ELSE LET prod == MulBits(f.bits, n, Len(f.bits), 0, <<>>)
             extra == Len(prod) - MantissaBits
             kept == SubSeq(prod, 1, MantissaBits)
             dropped == SubSeq(prod, MantissaBits + 1, Len(prod))
             rest0 == \A i \in 2..Len(dropped) : dropped[i] = 0
         IN  IF extra = 0 THEN [bits |-> prod, exp |-> f.exp]
             ELSE RoundNearestEven(kept, f.exp + extra,
                                   dropped[1] = 1 /\ ~rest0, dropped[1] = 1 /\ rest0)

RECURSIVE BitsToInt(_)
BitsToInt(bits) ==
    IF bits = <<>> THEN 0
    ELSE 2 * BitsToInt(SubSeq(bits, 1, Len(bits) - 1)) + bits[Len(bits)]

\* int(f) for a double f >= 0 below 2^31: the digits before the binary point.
FloatTrunc(f) ==
    IF f.exp >= 0 THEN BitsToInt(f.bits) * Pow2(f.exp)
    ELSE IF 0 - f.exp >= Len(f.bits) THEN 0
    ELSE BitsToInt(SubSeq(f.bits, 1, Len(f.bits) + f.exp))

-----------------------------------------------------------------------------
(* process_image_diff, src/main.py 3086-3158: the pixel differ.             *)

\* The colours the images are painted with: pure red, a colour at distance
\* 15 from it and one at distance 16 from that.
Palette == {<<255, 0, 0>>, <<255, 10, 5>>, <<255, 10, 21>>}

Coords(w, h) == (0..(w - 1)) \X (0..(h - 1))

Sizes == {wh \in (1..MaxPixels) \X (1..MaxPixels) : wh[1] * wh[2] <= MaxPixels}

ImagesOfSize(w, h) ==
    {[width |-> w, height |-> h, pixels |-> f] : f \in [Coords(w, h) -> Palette]}

\* What Image.open(path).convert("RGB") may return (lines 3095-3096).
Images == UNION {ImagesOfSize(wh[1], wh[2]) : wh \in Sizes}

Min2(a, b) == IF a < b THEN a ELSE b

Abs(a) == IF a < 0 THEN 0 - a ELSE a

\* Mutant: an image is never made smaller.
ResizedKeepsLarger(img, w, h) ==
    IF img.width >= w /\ img.height >= h THEN {img} ELSE ImagesOfSize(w, h)

\* Image.resize((width, height)): a copy for an image of that size, else a
\* resampled image, whose pixels are the library's to choose.
Resized(img, w, h) ==
    IF img.width = w /\ img.height = h THEN {img} ELSE ImagesOfSize(w, h)

\* Mutant: the channel differences summed with their signs.
DistanceSigned(p1, p2) == (p1[1] - p2[1]) + (p1[2] - p2[2]) + (p1[3] - p2[3])

\* Line 3119.
Distance(p1, p2) == Abs(p1[1] - p2[1]) + Abs(p1[2] - p2[2]) + Abs(p1[3] - p2[3])

Threshold == 15

\* Mutant: the comparison with the threshold turned around.
OverThresholdInverted(diff) == diff < Threshold

\* Mutant: a distance equal to the threshold counts as divergent.
OverThresholdInclusive(diff) == diff >= Threshold

\* Line 3120.
OverThreshold(diff) == diff > Threshold

Highlight == <<255, 0, 0>>

\* The double of the literal 0.3.
Float03 == FloatDiv(3, 10)

\* Line 3125: int(c * 0.3) for a channel value c.
DimChannel(c) == FloatTrunc(FloatMulInt(Float03, c))

DimTable == [c \in {p[i] : p \in Palette, i \in 1..3} |-> DimChannel(c)]

\* Mutant: the base pixel is copied as it is.
DimmedNot(p) == p

\* Line 3125 for the three channels of a pixel.
Dimmed(p) == <<DimTable[p[1]], DimTable[p[2]], DimTable[p[3]]>>

\* Mutant: the score of the pixels that are not divergent.
ScoreOfSame(count, total) == FloatTrunc(FloatMulInt(FloatDiv(total - count, total), 100))

\* Line 3130: int((diff_count / total_pixels) * 100).
Score(count, total) == FloatTrunc(FloatMulInt(FloatDiv(count, total), 100))

\* The pixel the nested loops of lines 3114-3115 handle after n others.
CoordAt(n, w) == <<n % w, n \div w>>

InitPixel ==
    /\ img1 \in Images
    /\ img2 \in Images
    /\ diff_pixels = <<>>
    /\ diff_count = 0
    /\ px = 0
    /\ diff_score = -1
    /\ ppc = "opened"
    /\ opened_sizes = <<<<img1.width, img1.height>>, <<img2.width, img2.height>>>>

\* Lines 3099-3112: both images resized to the smaller width and height, the
\* black diff image created, the counter reset.
Resize ==
    /\ ppc = "opened"
    /\ LET width == Min2(img1.width, img2.width)
           height == Min2(img1.height, img2.height)
       IN  /\ img1' \in Resized(img1, width, height)
           /\ img2' \in Resized(img2, width, height)
           /\ diff_pixels' = [c \in Coords(width, height) |-> <<0, 0, 0>>]
    /\ diff_count' = 0
    /\ px' = 0
    /\ ppc' = "loop"
    /\ UNCHANGED <<diff_score, opened_sizes>>
    /\ UNCHANGED <<domVars, sessionVars, extractVars>>

\* Lines 3116-3125: one pixel.
DiffPixel ==
    /\ ppc = "loop"
    /\ px < img1.width * img1.height
    /\ LET xy == CoordAt(px, img1.width)
           diff == Distance(img1.pixels[xy], img2.pixels[xy])
       IN  IF OverThreshold(diff)
           THEN /\ diff_pixels' = [diff_pixels EXCEPT ![xy] = Highlight]
                /\ diff_count' = diff_count + 1
           ELSE /\ diff_pixels' = [diff_pixels EXCEPT ![xy] = Dimmed(img1.pixels[xy])]
                /\ diff_count' = diff_count
    /\ px' = px + 1
    /\ UNCHANGED <<img1, img2, diff_score, ppc, opened_sizes>>
    /\ UNCHANGED <<domVars, sessionVars, extractVars>>

\* Lines 3127-3130: the loops are over, the score is computed.
ComputeScore ==
    /\ ppc = "loop"
    /\ px = img1.width * img1.height
    /\ diff_score' = Score(diff_count, img1.width * img1.height)
    /\ ppc' = "done"
    /\ UNCHANGED <<img1, img2, diff_pixels, diff_count, px, opened_sizes>>
    /\ UNCHANGED <<domVars, sessionVars, extractVars>>

\* The state of an engine that is not running.
DomIdle ==
    /\ base_elements = <<>>
    /\ compare_elements = <<>>
    /\ unmatched_base = <<>>
    /\ diffs = <<>>
    /\ match_index = -1
    /\ k = 0
    /\ pc = "idle"
    /\ calls = 0
    /\ prev_diffs = <<>>

PixelIdle ==
    /\ img1 = <<>>
    /\ img2 = <<>>
    /\ diff_pixels = <<>>
    /\ diff_count = 0
    /\ px = 0
    /\ diff_score = -1
    /\ ppc = "idle"
    /\ opened_sizes = <<>>

-----------------------------------------------------------------------------
(* The extraction script of compare_images_logic (lines 3010-3048): a       *)
(* TreeWalker over the element nodes under document.body.                   *)

MaxNodes == 3

\* What the script reads of a node: tagName, the rect's width and height,
\* the computed display and visibility, whether a direct child text node has
\* non-blank content, and whether reading its style or rect throws.
Node(tag, width, height, display, visibility, hasText, throws) ==
    [tagName |-> tag, width |-> width, height |-> height, display |-> display,
     visibility |-> visibility, hasText |-> hasText, throws |-> throws]

NodeKinds ==
    { Node("DIV", 10, 10, "block", "visible", TRUE, FALSE),
      Node("DIV", 10, 10, "block", "visible", FALSE, FALSE),
      Node("IMG", 10, 10, "block", "visible", FALSE, FALSE),
      Node("BUTTON", 10, 10, "block", "visible", FALSE, FALSE),
      Node("INPUT", 10, 10, "block", "visible", FALSE, FALSE),
      Node("DIV", 0, 10, "block", "visible", TRUE, FALSE),
      Node("IMG", 10, 0, "block", "visible", FALSE, FALSE),
      Node("DIV", 10, 10, "none", "visible", TRUE, FALSE),
      Node("BUTTON", 10, 10, "block", "hidden", FALSE, FALSE),
      Node("DIV", 10, 10, "block", "visible", TRUE, TRUE) }

\* The trees of n element nodes under the body: node i hangs under the body
\* (0) or under a node made before it; siblings stand in the order made.
Parents(n) == {p \in [1..n -> 0..n] : \A i \in 1..n : p[i] < i}

NodesOf(b) == DOMAIN b.parent

ChildrenOf(b, i) == {j \in NodesOf(b) : b.parent[j] = i}

Least(S) == CHOOSE x \in S : \A y \in S : x <= y

\* node.nextSibling among the element nodes (0: none).
NextSibling(b, i) ==
    LET later == {j \in ChildrenOf(b, b.parent[i]) : j > i}
    IN  IF later = {} THEN 0 ELSE Least(later)

\* The climb of TreeWalker.nextNode from a node without children: the next
\* sibling of the node or of its nearest ancestor that has one, below the
\* root (0: none, nextNode() returns null).
RECURSIVE Following(_, _)
Following(b, i) ==
    IF i = 0 THEN 0
    ELSE IF NextSibling(b, i) # 0 THEN NextSibling(b, i)
    ELSE Following(b, b.parent[i])

\* Mutant: the walker prefers the next sibling to the first child.
NextNodeSiblingFirst(b, i) ==
    IF i # 0 /\ NextSibling(b, i) # 0 THEN NextSibling(b, i)
    ELSE IF ChildrenOf(b, i) # {} THEN Least(ChildrenOf(b, i)) ELSE Following(b, i)

\* walker.nextNode() (line 3014), every element node being accepted.
NextNode(b, i) ==
    IF ChildrenOf(b, i) # {} THEN Least(ChildrenOf(b, i)) ELSE Following(b, i)

\* Line 3019.
Invisible(nd) ==
    nd.width = 0 \/ nd.height = 0 \/ nd.display = "none" \/ nd.visibility = "hidden"

\* Mutant: only nodes with text are pushed.
WantedWithText(nd) == nd.hasText

\* Line 3023.
Wanted(nd) == nd.hasText \/ nd.tagName = "IMG" \/ nd.tagName = "BUTTON" \/ nd.tagName = "INPUT"

\* Lines 3024-3043, the node standing for its id, text, rect and styles.
Record(b, i) == [node |-> i, tag |-> b.node[i].tagName]

InitExtract ==
    /\ \E n \in 0..MaxNodes :
          \E p \in Parents(n), nd \in [1..n -> NodeKinds] :
              body = [parent |-> p, node |-> nd]
    /\ currentNode = 0
    /\ elements = <<>>
    /\ xpc = "walking"

\* Lines 3014-3045, one turn of the loop: the walker moves to the next
\* node, which is pushed if it is visible and wanted.
ExtractNode ==
    /\ xpc = "walking"
    /\ NextNode(body, currentNode) # 0
    /\ ~body.node[NextNode(body, currentNode)].throws
    /\ LET next == NextNode(body, currentNode)
       IN  /\ currentNode' = next
           /\ elements' = IF ~Invisible(body.node[next]) /\ Wanted(body.node[next])
                           THEN Append(elements, Record(body, next))
                           ELSE elements
    /\ UNCHANGED <<body, xpc>>
    /\ UNCHANGED <<domVars, pixelVars, sessionVars>>

\* Lines 3016-3017 throw: nothing in the script catches it, the call of
\* page.evaluate raises and the list is lost.
ExtractThrows ==
    /\ xpc = "walking"
    /\ NextNode(body, currentNode) # 0
    /\ body.node[NextNode(body, currentNode)].throws
    /\ currentNode' = NextNode(body, currentNode)
    /\ elements' = <<>>
    /\ xpc' = "raised"
    /\ UNCHANGED body
    /\ UNCHANGED <<domVars, pixelVars, sessionVars>>

\* walker.nextNode() returns null: line 3046.
ExtractReturn ==
    /\ xpc = "walking"
    /\ NextNode(body, currentNode) = 0
    /\ xpc' = "returned"
    /\ UNCHANGED <<body, currentNode, elements>>
    /\ UNCHANGED <<domVars, pixelVars, sessionVars>>

ExtractIdle ==
    /\ body = [parent |-> <<>>, node |-> <<>>]
    /\ currentNode = 0
    /\ elements = <<>>
    /\ xpc = "idle"

\* The session ids trigger_visual_test may draw (line 3658).
SessionIds == {"vis_1", "vis_2"}

\* No visual test has been triggered: empty tables, no folder under diffs/.
SessionIdle ==
    /\ audit_sessions = {}
    /\ visual_results = {}
    /\ files = [s \in SessionIds |-> {}]
    /\ diff_report = [s \in SessionIds |-> <<>>]
    /\ wpc = [s \in SessionIds |-> "none"]
    /\ result = [s \in SessionIds |-> -1]
    /\ deleting = {}
    /\ printed = [s \in SessionIds |-> {}]
    /\ trace = [s \in SessionIds |-> <<>>]

Init == InitDom /\ PixelIdle /\ SessionIdle /\ ExtractIdle

Next == ProcessCompare \/ EmitRemoved \/ CallAgain

Spec == Init /\ [][Next]_vars

InitP == DomIdle /\ InitPixel /\ SessionIdle /\ ExtractIdle

NextP == Resize \/ DiffPixel \/ ComputeScore

SpecPixel == InitP /\ [][NextP]_vars

InitX == DomIdle /\ PixelIdle /\ SessionIdle /\ InitExtract

NextX == ExtractNode \/ ExtractThrows \/ ExtractReturn

SpecExtract == InitX /\ [][NextX]_vars

\* Larger screenshots, for the score: two images of the same size, the base
\* one pure red, the compare one with its first n pixels (row by row) at
\* distance 31 from red and the others at distance 15.
MaxSide == 10

ScoreSides == 1..MaxSide

FarImage(w, h, n) ==
    [width |-> w, height |-> h,
     pixels |-> [c \in Coords(w, h) |->
                    IF c[2] * w + c[1] < n THEN <<255, 10, 21>> ELSE <<255, 10, 5>>]]

RedImage(w, h) ==
    [width |-> w, height |-> h, pixels |-> [c \in Coords(w, h) |-> <<255, 0, 0>>]]

InitScore ==
    /\ \E w \in ScoreSides, h \in ScoreSides :
          /\ img1 = RedImage(w, h)
          /\ \E n \in 0..(w * h) : img2 = FarImage(w, h, n)
    /\ diff_pixels = <<>>
    /\ diff_count = 0
    /\ px = 0
    /\ diff_score = -1
    /\ ppc = "opened"
    /\ opened_sizes = <<<<img1.width, img1.height>>, <<img2.width, img2.height>>>>

InitS == DomIdle /\ InitScore /\ SessionIdle /\ ExtractIdle

SpecScore == InitS /\ [][NextP]_vars

-----------------------------------------------------------------------------
(* The run of a visual test: trigger_visual_test, compare_images_logic on   *)
(* the event loop, process_image_diff on a thread of the executor, and the  *)
(* requests that may arrive meanwhile (stop_session, delete_session).       *)
(* The database is SQLite (line 147): a transaction that has written holds  *)
(* the write lock until it commits, and a commit that updates a row which   *)
(* is gone raises and persists nothing.                                     *)

\* AuditSession.status of a row created without one (lines 3660-3669); the
\* other audits pass "running" (line 1062).
DefaultStatus == "running"

Folder == "."

\* filter_by(session_id=session_id), on either table.
RowsOf(table, s) == {r \in table : r.session_id = s}

\* session.status = status on the row of the session, if there is one.
WithStatus(s, status) ==
    {IF r.session_id = s THEN [r EXCEPT !.status = status] ELSE r : r \in audit_sessions}

\* Mutant: the row is looked up without the session id.
CompletedAny(s) ==
    {[r EXCEPT !.status = "completed", !.completed = 1] : r \in audit_sessions}

\* Lines 3146-3147.
Completed(s) ==
    {IF r.session_id = s THEN [r EXCEPT !.status = "completed", !.completed = 1] ELSE r :
        r \in audit_sessions}

\* What compare_dom_elements may return for the two snapshots: no entry, or
\* entries.
Reports == {<<>>, <<[type |-> "added"]>>}

\* Lines 3746-3766 for a visual session: the scores of its results, and the
\* list of diff_report.json if the file exists.
get_any_results(s) ==
    [results |-> {r.diff_score : r \in RowsOf(visual_results, s)},
     dom_diffs |-> IF "diff_report.json" \in files[s] THEN diff_report[s] ELSE <<>>]

\* The screenshots a page may give: one pixel of any colour.
Screens == ImagesOfSize(1, 1)

\* Lines 3099-3130 for two screenshots of the same size.
DiffScoreOf(a, b) ==
    Score(Cardinality({c \in Coords(a.width, a.height) :
                         OverThreshold(Distance(a.pixels[c], b.pixels[c]))}),
          a.width * a.height)

\* Nothing is between the cleanup and the commit of a delete_session: the
\* event loop is free for another handler or coroutine step.
LoopFree == deleting = {}

AtStep(s, at, to) ==
    /\ wpc[s] = at
    /\ wpc' = [wpc EXCEPT ![s] = to]

Ended(s, step) == trace' = [trace EXCEPT ![s] = Append(@, step)]

Prints(s, message) == printed' = [printed EXCEPT ![s] = @ \cup {message}]

\* Lines 3658-3673: the session row is committed, the task is scheduled.
trigger_visual_test(s) ==
    /\ LoopFree
    /\ AtStep(s, "none", "launch")
    /\ audit_sessions' = audit_sessions \cup
            {[session_id |-> s, status |-> DefaultStatus, completed |-> 0]}
    /\ UNCHANGED <<visual_results, files, result, deleting, printed, trace>>
    /\ UNCHANGED diff_report
    /\ UNCHANGED <<domVars, pixelVars, extractVars>>

\* Lines 3007-3055: the folder is made, the browser and the page are opened.
Launch(s) ==
    /\ LoopFree
    /\ AtStep(s, "launch", "base_goto")
    /\ files' = [files EXCEPT ![s] = @ \cup {Folder}]
    /\ UNCHANGED <<audit_sessions, visual_results, result, deleting, printed, trace>>
    /\ UNCHANGED diff_report
    /\ UNCHANGED <<domVars, pixelVars, extractVars>>

\* Lines 3057 and 3063: page.goto.
Goto(s) ==
    /\ LoopFree
    /\ \/ AtStep(s, "base_goto", "base_shot")
       \/ AtStep(s, "compare_goto", "compare_shot")
    /\ UNCHANGED <<audit_sessions, visual_results, files, result, deleting, printed, trace>>
    /\ UNCHANGED diff_report
    /\ UNCHANGED <<domVars, pixelVars, extractVars>>

\* Lines 3059 and 3065: page.screenshot writes the file (and its folder).
Screenshot(s) ==
    /\ LoopFree
    /\ \/ /\ AtStep(s, "base_shot", "base_dom")
          /\ files' = [files EXCEPT ![s] = @ \cup {Folder, "base.png"}]
       \/ /\ AtStep(s, "compare_shot", "compare_dom")
          /\ files' = [files EXCEPT ![s] = @ \cup {Folder, "compare.png"}]
    /\ UNCHANGED <<audit_sessions, visual_results, result, deleting, printed, trace>>
    /\ UNCHANGED diff_report
    /\ UNCHANGED <<domVars, pixelVars, extractVars>>

\* Lines 3060 and 3066: page.evaluate(extraction_script).
Evaluate(s) ==
    /\ LoopFree
    /\ \/ AtStep(s, "base_dom", "compare_goto") /\ Ended(s, "base")
       \/ AtStep(s, "compare_dom", "close") /\ Ended(s, "compare")
    /\ UNCHANGED <<audit_sessions, visual_results, files, result, deleting, printed>>
    /\ UNCHANGED diff_report
    /\ UNCHANGED <<domVars, pixelVars, extractVars>>

\* Line 3068.
CloseBrowser(s) ==
    /\ LoopFree
    /\ AtStep(s, "close", "dom_diff")
    /\ UNCHANGED <<audit_sessions, visual_results, files, result, deleting, printed, trace>>
    /\ UNCHANGED diff_report
    /\ UNCHANGED <<domVars, pixelVars, extractVars>>

Capturing ==
    {"launch", "base_goto", "base_shot", "base_dom",
     "compare_goto", "compare_shot", "compare_dom", "close"}

\* A call of lines 3052-3068 raises: lines 3082-3084 print and pass.
CaptureFails(s) ==
    /\ LoopFree
    /\ wpc[s] \in Capturing
    /\ wpc' = [wpc EXCEPT ![s] = "done"]
    /\ Prints(s, "Visual Audit Error")
    /\ Ended(s, "capture_failed")
    /\ UNCHANGED <<audit_sessions, visual_results, files, result, deleting>>
    /\ UNCHANGED diff_report
    /\ UNCHANGED <<domVars, pixelVars, extractVars>>

\* Lines 3072-3074: the diff is computed and written to diff_report.json,
\* which needs the folder.
DomDiff(s) ==
    /\ LoopFree
    /\ AtStep(s, "dom_diff", "pixel_open")
    /\ Folder \in files[s]
    /\ files' = [files EXCEPT ![s] = @ \cup {"diff_report.json"}]
    /\ \E dom_diffs \in Reports : diff_report' = [diff_report EXCEPT ![s] = dom_diffs]
    /\ Ended(s, "dom_diff")
    /\ UNCHANGED <<audit_sessions, visual_results, result, deleting, printed>>
    /\ UNCHANGED <<domVars, pixelVars, extractVars>>

\* Lines 3075-3076: the DOM diff or the open() raised; the run goes on.
DomDiffFails(s) ==
    /\ LoopFree
    /\ AtStep(s, "dom_diff", "pixel_open")
    /\ Prints(s, "DOM Diff Error")
    /\ Ended(s, "dom_diff_failed")
    /\ UNCHANGED <<audit_sessions, visual_results, files, result, deleting>>
    /\ UNCHANGED diff_report
    /\ UNCHANGED <<domVars, pixelVars, extractVars>>

\* Mutant: the pixel diff starts without waiting for the DOM diff.
OpenImagesEarly(s) ==
    /\ wpc[s] \in {"dom_diff", "pixel_open"}
    /\ wpc' = [wpc EXCEPT ![s] = "pixel_loop"]
    /\ {"base.png", "compare.png"} \subseteq files[s]
    /\ UNCHANGED <<audit_sessions, visual_results, files, result, deleting, printed, trace>>
    /\ UNCHANGED diff_report
    /\ UNCHANGED <<domVars, pixelVars, extractVars>>

\* Lines 3095-3096, on the executor's thread: both files are there and decode.
OpenImages(s) ==
    /\ AtStep(s, "pixel_open", "pixel_loop")
    /\ {"base.png", "compare.png"} \subseteq files[s]
    /\ UNCHANGED <<audit_sessions, visual_results, files, result, deleting, printed, trace>>
    /\ UNCHANGED diff_report
    /\ UNCHANGED <<domVars, pixelVars, extractVars>>

\* Image.open raises (a file is gone or does not decode): line 3151.
OpenFails(s) ==
    /\ AtStep(s, "pixel_open", "except")
    /\ Prints(s, "Diff processing error")
    /\ Ended(s, "open_failed")
    /\ UNCHANGED <<audit_sessions, visual_results, files, result, deleting>>
    /\ UNCHANGED diff_report
    /\ UNCHANGED <<domVars, pixelVars, extractVars>>

\* Lines 3099-3142: the loops, diff.png saved into the folder, the score,
\* db.add(result).
PixelDiff(s) ==
    /\ AtStep(s, "pixel_loop", "query")
    /\ Folder \in files[s]
    /\ files' = [files EXCEPT ![s] = @ \cup {"diff.png"}]
    /\ \E a \in Screens, b \in Screens :
          result' = [result EXCEPT ![s] = DiffScoreOf(a, b)]
    /\ Ended(s, "pixel_diff")
    /\ UNCHANGED <<audit_sessions, visual_results, deleting, printed>>
    /\ UNCHANGED diff_report
    /\ UNCHANGED <<domVars, pixelVars, extractVars>>

\* diff_img.save raises: line 3151.
SaveFails(s) ==
    /\ AtStep(s, "pixel_loop", "except")
    /\ Prints(s, "Diff processing error")
    /\ Ended(s, "save_failed")
    /\ UNCHANGED <<audit_sessions, visual_results, files, result, deleting>>
    /\ UNCHANGED diff_report
    /\ UNCHANGED <<domVars, pixelVars, extractVars>>

\* Line 3144: the session row is read; without one lines 3145-3149 are
\* skipped and db.close() drops the added row.
QuerySession(s) ==
    /\ wpc[s] = "query"
    /\ IF RowsOf(audit_sessions, s) # {}
       THEN /\ wpc' = [wpc EXCEPT ![s] = "commit"]
            /\ UNCHANGED <<result, trace>>
       ELSE /\ wpc' = [wpc EXCEPT ![s] = "done"]
            /\ result' = [result EXCEPT ![s] = -1]
            /\ Ended(s, "dropped")
    /\ UNCHANGED <<audit_sessions, visual_results, files, deleting, printed>>
    /\ UNCHANGED diff_report
    /\ UNCHANGED <<domVars, pixelVars, extractVars>>

\* Mutant: the commit inserts the result whether the session row is there
\* or not.
CommitBlind(s) ==
    /\ deleting = {}
    /\ AtStep(s, "commit", "done")
    /\ audit_sessions' = Completed(s)
    /\ visual_results' = visual_results \cup {[session_id |-> s, diff_score |-> result[s]]}
    /\ result' = [result EXCEPT ![s] = -1]
    /\ Ended(s, "persist")
    /\ UNCHANGED <<files, deleting, printed>>
    /\ UNCHANGED diff_report
    /\ UNCHANGED <<domVars, pixelVars, extractVars>>

\* Mutant: the result is committed and the row of the session left as it was.
CommitResultOnly(s) ==
    /\ deleting = {}
    /\ RowsOf(audit_sessions, s) # {}
    /\ AtStep(s, "commit", "done")
    /\ visual_results' = visual_results \cup {[session_id |-> s, diff_score |-> result[s]]}
    /\ result' = [result EXCEPT ![s] = -1]
    /\ Ended(s, "persist")
    /\ UNCHANGED <<audit_sessions, files, deleting, printed>>
    /\ UNCHANGED diff_report
    /\ UNCHANGED <<domVars, pixelVars, extractVars>>

\* Lines 3145-3149: the row is marked completed and committed together with
\* the result, once no other transaction holds the write lock.
Commit(s) ==
    /\ deleting = {}
    /\ RowsOf(audit_sessions, s) # {}
    /\ AtStep(s, "commit", "done")
    /\ audit_sessions' = Completed(s)
    /\ visual_results' = visual_results \cup {[session_id |-> s, diff_score |-> result[s]]}
    /\ result' = [result EXCEPT ![s] = -1]
    /\ Ended(s, "persist")
    /\ UNCHANGED <<files, deleting, printed>>
    /\ UNCHANGED diff_report
    /\ UNCHANGED <<domVars, pixelVars, extractVars>>

\* The row read at line 3144 is gone at line 3149: the commit raises, the
\* transaction is rolled back, lines 3150-3153 find no session.
CommitStale(s) ==
    /\ deleting = {}
    /\ RowsOf(audit_sessions, s) = {}
    /\ AtStep(s, "commit", "done")
    /\ result' = [result EXCEPT ![s] = -1]
    /\ Prints(s, "Diff processing error")
    /\ Ended(s, "stale")
    /\ UNCHANGED <<audit_sessions, visual_results, files, deleting>>
    /\ UNCHANGED diff_report
    /\ UNCHANGED <<domVars, pixelVars, extractVars>>

\* Mutant: the failed comparison is persisted with a score of zero.
HandleErrorZeroScore(s) ==
    /\ deleting = {}
    /\ AtStep(s, "except", "done")
    /\ audit_sessions' = Completed(s)
    /\ visual_results' = visual_results \cup {[session_id |-> s, diff_score |-> 0]}
    /\ UNCHANGED <<files, result, deleting, printed, trace>>
    /\ UNCHANGED diff_report
    /\ UNCHANGED <<domVars, pixelVars, extractVars>>

\* Lines 3152-3156: the session, if there is one, is marked "error".
HandleError(s) ==
    /\ deleting = {}
    /\ AtStep(s, "except", "done")
    /\ audit_sessions' = WithStatus(s, "error")
    /\ UNCHANGED <<visual_results, files, result, deleting, printed, trace>>
    /\ UNCHANGED diff_report
    /\ UNCHANGED <<domVars, pixelVars, extractVars>>

\* Lines 2581-2587.
stop_session(s) ==
    /\ LoopFree
    /\ RowsOf(audit_sessions, s) # {}
    /\ audit_sessions' = WithStatus(s, "stopped")
    /\ UNCHANGED <<visual_results, files, wpc, result, deleting, printed, trace>>
    /\ UNCHANGED diff_report
    /\ UNCHANGED <<domVars, pixelVars, extractVars>>

\* Lines 2305-2314 and 2268-2296: the session is found, the DELETEs are
\* issued (the transaction holds the write lock from here on), the folder
\* is removed.
perform_session_cleanup(s) ==
    /\ LoopFree
    /\ RowsOf(audit_sessions, s) # {}
    /\ deleting' = {s}
    /\ files' = [files EXCEPT ![s] = {}]
    /\ diff_report' = [diff_report EXCEPT ![s] = <<>>]
    /\ UNCHANGED <<audit_sessions, visual_results, wpc, result, printed, trace>>
    /\ UNCHANGED <<domVars, pixelVars, extractVars>>

\* Lines 2317-2318: the session row is deleted and the transaction, with the
\* DELETE of line 2275, committed.
delete_session(s) ==
    /\ s \in deleting
    /\ deleting' = {}
    /\ visual_results' = visual_results \ RowsOf(visual_results, s)
    /\ audit_sessions' = audit_sessions \ RowsOf(audit_sessions, s)
    /\ UNCHANGED <<files, wpc, result, printed, trace>>
    /\ UNCHANGED diff_report
    /\ UNCHANGED <<domVars, pixelVars, extractVars>>

InitV == DomIdle /\ PixelIdle /\ SessionIdle /\ ExtractIdle

NextV ==
    \E s \in SessionIds :
        \/ trigger_visual_test(s)
        \/ Launch(s)
        \/ Goto(s)
        \/ Screenshot(s)
        \/ Evaluate(s)
        \/ CloseBrowser(s)
        \/ CaptureFails(s)
        \/ DomDiff(s)
        \/ DomDiffFails(s)
        \/ OpenImages(s)
        \/ OpenFails(s)
        \/ PixelDiff(s)
        \/ SaveFails(s)
        \/ QuerySession(s)
        \/ Commit(s)
        \/ CommitStale(s)
        \/ HandleError(s)
        \/ stop_session(s)
        \/ perform_session_cleanup(s)
        \/ delete_session(s)

SpecVisual == InitV /\ [][NextV]_vars

-----------------------------------------------------------------------------
(* Vocabulary of the claims about compare_dom_elements.                     *)

Returned == pc = "done"

BaseIdx == 0..(Len(base_elements) - 1)
CompIdx == 0..(Len(compare_elements) - 1)
BaseAt(i) == base_elements[i + 1]
CompAt(j) == compare_elements[j + 1]

\* The positions of diffs holding an entry of the type, copied from the rect.
EntriesAt(type, rect) == {n \in 1..Len(diffs) : diffs[n].type = type /\ diffs[n].rect = rect}

SameIdAndTag(a, b) == a.id = b.id /\ a.tag = b.tag
SameTagAndText(a, b) == a.tag = b.tag /\ a.text = b.text

\* The two snapshots hold the same elements (by tag, id, text and styles),
\* each as often in the one as in the other.
IsReordering ==
    /\ Len(base_elements) = Len(compare_elements)
    /\ \A kind \in ElementKinds :
          Cardinality({i \in BaseIdx : KindOf(BaseAt(i)) = kind})
            = Cardinality({j \in CompIdx : KindOf(CompAt(j)) = kind})

SameOrder ==
    /\ Len(base_elements) = Len(compare_elements)
    /\ \A i \in BaseIdx : KindOf(BaseAt(i)) = KindOf(CompAt(i))

\* No two elements of the base snapshot are candidates for the same match.
KeysUnique ==
    \A i, j \in BaseIdx :
        i # j => /\ ~SameTagAndText(BaseAt(i), BaseAt(j))
                 /\ ~(BaseAt(i).id # "" /\ SameIdAndTag(BaseAt(i), BaseAt(j)))

-----------------------------------------------------------------------------
\* C1 (as claimed): diffing a snapshot against any reordering of itself
\* returns the empty list.
C1_ReorderingYieldsEmpty == Returned /\ IsReordering => diffs = <<>>

\* C1 (amended): diffing a snapshot against itself, in the same order,
\* returns the empty list; against a reordering it does so when no two
\* elements of the snapshot share tag and text or tag and a non-empty id.
C1_SelfDiffEmpty ==
    Returned =>
        /\ SameOrder => diffs = <<>>
        /\ IsReordering /\ KeysUnique => diffs = <<>>

C1_Witness ==
    /\ Returned /\ IsReordering /\ KeysUnique /\ ~SameOrder
    /\ Len(base_elements) = 2 /\ diffs = <<>>

\* C2: a compare element that no base element equals in id and tag or in
\* tag and text appears as exactly one added entry; a base element is out of
\* the working set from the step that matches it on, so the removed entries,
\* which are those of the working set, never hold a matched element.
C2_NoMatchAnywhere(j) ==
    \A i \in BaseIdx : /\ ~SameIdAndTag(BaseAt(i), CompAt(j))
                       /\ ~SameTagAndText(BaseAt(i), CompAt(j))

C2_AddedOnce ==
    Returned =>
        \A j \in CompIdx :
            C2_NoMatchAnywhere(j) => Cardinality(EntriesAt("added", CompAt(j).rect)) = 1

C2_MatchedLeavesWorkingSet ==
    /\ pc = "compare" /\ match_index' # -1 => match_index' \notin DOMAIN unmatched_base'
    /\ calls' = calls => DOMAIN unmatched_base' \subseteq DOMAIN unmatched_base
    /\ pc = "removed" =>
          \A i \in BaseIdx :
              i \notin DOMAIN unmatched_base =>
                  \A n \in 1..Len(diffs') :
                      ~(diffs'[n].type = "removed" /\ diffs'[n].rect = BaseAt(i).rect)

\* C2: unmatched compare elements are added exactly once, and no removed
\* entry is emitted for a matched base element.
C2_AddedAndNoRemovedDuplicate ==
    [](C2_AddedOnce) /\ [][C2_MatchedLeavesWorkingSet]_vars

C2_Witness ==
    /\ Returned
    /\ \E j \in CompIdx : C2_NoMatchAnywhere(j)
    /\ \E i \in BaseIdx : i \notin DOMAIN unmatched_base

\* C3: a base element that no compare element equals in id and tag or in
\* tag and text appears as exactly one removed entry; every base element
\* left in the working set has exactly one removed entry, the others none.
C3_NoMatchAnywhere(i) ==
    \A j \in CompIdx : /\ ~SameIdAndTag(BaseAt(i), CompAt(j))
                       /\ ~SameTagAndText(BaseAt(i), CompAt(j))

C3_RemovedOnce ==
    Returned =>
        \A i \in BaseIdx :
            /\ C3_NoMatchAnywhere(i) => i \in DOMAIN unmatched_base
            /\ Cardinality(EntriesAt("removed", BaseAt(i).rect))
                 = IF i \in DOMAIN unmatched_base THEN 1 ELSE 0

C3_Witness ==
    /\ Returned
    /\ Len(compare_elements) > 0
    /\ \E i \in BaseIdx : C3_NoMatchAnywhere(i)
    /\ \E i \in BaseIdx : i \notin DOMAIN unmatched_base

-----------------------------------------------------------------------------
\* The entries a step appended, and whether it left the earlier ones alone.
NewEntries == {n \in 1..Len(diffs') : n > Len(diffs)}
KeepsEntries ==
    /\ Len(diffs') >= Len(diffs)
    /\ \A n \in 1..Len(diffs) : diffs'[n] = diffs[n]

\* The step of the compare loop is the only one enabled at pc = "compare";
\* it handles the element CompAt(k).
InCompareStep == pc = "compare"

C4_SixProperties ==
    {"color", "background-color", "font-family", "font-size", "font-weight", "text-align"}

\* C4: a step that matches a pair appends a style_change entry if and only
\* if one of the six properties differs; the entry's mapping has exactly the
\* differing properties, each with old = base value and new = compare value.
C4_Step ==
    InCompareStep /\ match_index' # -1 =>
        LET b == unmatched_base[match_index']
            c == CompAt(k)
            D == {p \in C4_SixProperties : b.styles[p] # c.styles[p]}
        IN  /\ KeepsEntries
            /\ IF D = {}
               THEN diffs' = diffs
               ELSE /\ Len(diffs') = Len(diffs) + 1
                    /\ LET e == diffs'[Len(diffs')]
                       IN  /\ e.type = "style_change"
                           /\ DOMAIN e.diffs = D
                           /\ \A p \in D :
                                 e.diffs[p] = [old |-> b.styles[p], new |-> c.styles[p]]

\* C4: every step of the compare loop reports the style change of the pair
\* it matched exactly as C4_Step says.
C4_StyleChangeIffDiffers == [][C4_Step]_vars

\* A pair differing only in color has just been matched.
C4_Witness ==
    /\ k >= 1 /\ pc # "done" /\ match_index # -1
    /\ {p \in C4_SixProperties :
            BaseAt(match_index).styles[p] # CompAt(k - 1).styles[p]} = {"color"}
    /\ Len(diffs) = 1
    /\ diffs[1].type = "style_change"
    /\ DOMAIN diffs[1].diffs = {"color"}

\* C5: the match of a compare element is the first element of the working
\* set with its id and tag if its id is not empty and there is one, else the
\* first with its tag and text, else none; the working set loses exactly
\* the match.
C5_Min(S) == CHOOSE x \in S : \A y \in S : x <= y

C5_Expected ==
    LET c == CompAt(k)
        ById == {i \in DOMAIN unmatched_base : SameIdAndTag(unmatched_base[i], c)}
        ByText == {i \in DOMAIN unmatched_base : SameTagAndText(unmatched_base[i], c)}
    IN  IF c.id # "" /\ ById # {} THEN C5_Min(ById)
        ELSE IF ByText # {} THEN C5_Min(ByText)
        ELSE -1

C5_Step ==
    InCompareStep =>
        /\ match_index' = C5_Expected
        /\ DOMAIN unmatched_base' = (DOMAIN unmatched_base) \ {match_index'}
        /\ \A i \in DOMAIN unmatched_base' : unmatched_base'[i] = BaseAt(i)
        /\ CompAt(k).id = "" /\ match_index' # -1 =>
              SameTagAndText(unmatched_base[match_index'], CompAt(k))

\* C5: the working set starts as the whole base snapshot, and every step of
\* the compare loop chooses its match as C5_Step says.
C5_MatchChoice ==
    /\ [](k = 0 => DOMAIN unmatched_base = BaseIdx)
    /\ [][C5_Step]_vars

\* An element was matched by its id although an earlier element of the
\* working set has its tag and text.
C5_Witness ==
    /\ k >= 1 /\ pc # "done" /\ match_index # -1
    /\ CompAt(k - 1).id # ""
    /\ SameIdAndTag(BaseAt(match_index), CompAt(k - 1))
    /\ \E i \in DOMAIN unmatched_base :
          i < match_index /\ SameTagAndText(BaseAt(i), CompAt(k - 1))

\* C6: the style_change and added entries come first, in the order of the
\* compare elements they were copied from, then the removed entries in the
\* order of the base elements.
C6_Ordered ==
    \A a, b \in 1..Len(diffs) :
        a < b =>
            /\ diffs[a].type = "removed" => diffs[b].type = "removed"
            /\ diffs[a].rect.x = (IF diffs[a].type = "removed" THEN 0 ELSE 1)
            /\ diffs[b].rect.x = (IF diffs[b].type = "removed" THEN 0 ELSE 1)
            /\ diffs[a].type = diffs[b].type \/ diffs[b].type # "removed" =>
                  diffs[a].rect.y < diffs[b].rect.y

C6_Witness ==
    /\ Returned
    /\ \E a, b, c \in 1..Len(diffs) :
          /\ diffs[a].type = "style_change"
          /\ diffs[b].type = "added"
          /\ diffs[c].type = "removed"

\* C7: with an empty base every compare element gives one added entry, with
\* an empty compare every base element gives one removed entry, with both
\* empty the result is empty.
C7_EmptySides ==
    Returned =>
        /\ base_elements = <<>> =>
              /\ Len(diffs) = Len(compare_elements)
              /\ \A j \in CompIdx :
                    /\ diffs[j + 1].type = "added"
                    /\ diffs[j + 1].tag = CompAt(j).tag
                    /\ diffs[j + 1].text = CompAt(j).text
        /\ compare_elements = <<>> =>
              /\ Len(diffs) = Len(base_elements)
              /\ \A i \in BaseIdx :
                    /\ diffs[i + 1].type = "removed"
                    /\ diffs[i + 1].tag = BaseAt(i).tag
                    /\ diffs[i + 1].text = BaseAt(i).text
        /\ base_elements = <<>> /\ compare_elements = <<>> => diffs = <<>>

C7_Witness ==
    /\ Returned /\ base_elements = <<>> /\ Len(compare_elements) = 1
    /\ CompAt(0).tag = "BUTTON" /\ CompAt(0).text = "Buy"
    /\ Len(diffs) = 1 /\ diffs[1].type = "added"
    /\ diffs[1].tag = "BUTTON" /\ diffs[1].text = "Buy"

\* C8: the entry a compare step appends has the rect, tag and text of the
\* compare element of that step (never the rect of the matched base
\* element); the entries of the last loop have the rect, tag and text of the
\* base elements left in the working set.
C8_Step ==
    /\ calls' = calls => KeepsEntries
    /\ InCompareStep =>
          \A n \in NewEntries :
              /\ diffs'[n].type \in {"style_change", "added"}
              /\ diffs'[n].rect = CompAt(k).rect
              /\ diffs'[n].tag = CompAt(k).tag
              /\ diffs'[n].text = CompAt(k).text
              /\ diffs'[n].type = "style_change" =>
                    diffs'[n].rect # unmatched_base[match_index'].rect
    /\ pc = "removed" =>
          \A n \in NewEntries :
              /\ diffs'[n].type = "removed"
              /\ \E i \in DOMAIN unmatched_base :
                    /\ diffs'[n].rect = BaseAt(i).rect
                    /\ diffs'[n].tag = BaseAt(i).tag
                    /\ diffs'[n].text = BaseAt(i).text

\* C8: every step appends only entries with the payload C8_Step names.
C8_EntryPayload == [][C8_Step]_vars

\* A style change between elements matched by id whose texts differ.
C8_Witness ==
    /\ k >= 1 /\ pc # "done" /\ match_index # -1
    /\ Len(diffs) >= 1
    /\ diffs[Len(diffs)].type = "style_change"
    /\ diffs[Len(diffs)].text = CompAt(k - 1).text
    /\ BaseAt(match_index).text # CompAt(k - 1).text

\* C9: no step changes base_elements or compare_elements, and a second
\* call with the same lists returns what the first returned.
C9_Pure ==
    /\ [][base_elements' = base_elements /\ compare_elements' = compare_elements]_vars
    /\ [](Returned /\ calls = 2 => diffs = prev_diffs)

C9_Witness == Returned /\ calls = 2 /\ Len(diffs) >= 2 /\ diffs = prev_diffs

-----------------------------------------------------------------------------
(* Claims about process_image_diff, checked under SpecPixel.                *)

Scored == ppc = "done"

AllCoords == Coords(img1.width, img1.height)

\* C10: an image diffed against an identical copy of itself is resized to
\* itself, scores 0, counts no pixel and highlights none, and every pixel of
\* the diff image is the base pixel with each channel scaled by 0.3 and cut
\* to an integer.
C10_Scaled(p) == <<(3 * p[1]) \div 10, (3 * p[2]) \div 10, (3 * p[3]) \div 10>>

C10_ResizeKeepsIdentical ==
    ppc = "opened" /\ img1 = img2 => img1' = img1 /\ img2' = img2

C10_AtEnd ==
    Scored /\ img1 = img2 =>
        /\ diff_score = 0
        /\ diff_count = 0
        /\ DOMAIN diff_pixels = AllCoords
        /\ \A c \in AllCoords :
              /\ diff_pixels[c] # <<255, 0, 0>>
              /\ diff_pixels[c] = C10_Scaled(img1.pixels[c])

\* C10: identical images stay as they are when resized, and their diff
\* ends as C10_AtEnd says.
C10_IdenticalImages == [][C10_ResizeKeepsIdentical]_vars /\ [](C10_AtEnd)

\* Two identical images of one colour and of the largest size.
C10_Witness ==
    /\ Scored /\ img1 = img2 /\ diff_score = 0
    /\ img1.width * img1.height = MaxPixels
    /\ \A c \in AllCoords : img1.pixels[c] = <<255, 10, 21>> /\ diff_pixels[c] = <<76, 3, 6>>

-----------------------------------------------------------------------------
(* Vocabulary of the claims about the score.                                *)

total_pixels == img1.width * img1.height

\* The pixels of the canvas at which the two resized images are further
\* apart than the threshold.
Divergent == {c \in AllCoords : Distance(img1.pixels[c], img2.pixels[c]) > Threshold}

\* C11: for images of at least one pixel the score is
\* floor(divergence_count / total_pixels * 100), an integer of 0..100, the
\* divergence count being the number of pixels further apart than the
\* threshold (29 divergent pixels of 100 give 29).
C11_ScoreIsFloor ==
    Scored /\ total_pixels >= 1 =>
        /\ diff_count = Cardinality(Divergent)
        /\ diff_score = (Cardinality(Divergent) * 100) \div total_pixels
        /\ diff_score \in 0..100

\* What C12 expects of the pixel at c: red when the two pixels are more than
\* 15 apart, else the base pixel with each channel at three tenths, cut to
\* an integer.
C12_ChannelDistance(c) ==
    LET p1 == img1.pixels[c]
        p2 == img2.pixels[c]
    IN  Abs(p1[1] - p2[1]) + Abs(p1[2] - p2[2]) + Abs(p1[3] - p2[3])

C12_Expected(c) ==
    LET p1 == img1.pixels[c]
    IN  IF C12_ChannelDistance(c) > 15
        THEN <<255, 0, 0>>
        ELSE <<(3 * p1[1]) \div 10, (3 * p1[2]) \div 10, (3 * p1[3]) \div 10>>

\* The step of the loops handles the pixel CoordAt(px, width).
C12_Step ==
    ppc = "loop" /\ px < total_pixels =>
        LET c == CoordAt(px, img1.width)
        IN  /\ diff_pixels'[c] = C12_Expected(c)
            /\ diff_count' = diff_count + (IF C12_ChannelDistance(c) > 15 THEN 1 ELSE 0)
            /\ \A o \in AllCoords \ {c} : diff_pixels'[o] = diff_pixels[o]

C12_AtEnd ==
    Scored =>
        /\ \A c \in AllCoords : diff_pixels[c] = C12_Expected(c)
        /\ diff_count = Cardinality({c \in AllCoords : C12_ChannelDistance(c) > 15})

\* C12: every pixel further than 15 from its counterpart is painted
\* (255,0,0) and counted once; every other pixel, one at distance exactly 15
\* included, is painted with the base pixel scaled by 0.3 and not counted.
C12_PixelRule == [](C12_AtEnd) /\ [][C12_Step]_vars

C12_Witness ==
    /\ Scored
    /\ \E c \in AllCoords : C12_ChannelDistance(c) = 15 /\ diff_pixels[c] = <<76, 3, 1>>
    /\ \E c \in AllCoords : C12_ChannelDistance(c) = 16 /\ diff_pixels[c] = <<255, 0, 0>>
    /\ diff_count = 1

\* C13: on a canvas of the same size, a pair of images with no more
\* divergent pixels than this one never scores higher than this one.
C13_Monotonic ==
    Scored =>
        \A fewer \in 0..diff_count : Score(fewer, total_pixels) <= diff_score

C13_Witness ==
    /\ Scored
    /\ diff_count = 29 /\ total_pixels = 50
    /\ Score(diff_count - 1, total_pixels) < diff_score
    /\ diff_score < Score(diff_count + 1, total_pixels)

-----------------------------------------------------------------------------
\* C14: the canvas is min(widthA, widthB) by min(heightA, heightB): both
\* images are resized to exactly that, neither side of either image grows,
\* and the diff image has the size of the canvas (a narrow tall image
\* against a wide short one gives a narrow short canvas).
C14_Canvas ==
    ppc \in {"loop", "done"} =>
        LET a == opened_sizes[1]
            b == opened_sizes[2]
            w == IF a[1] <= b[1] THEN a[1] ELSE b[1]
            h == IF a[2] <= b[2] THEN a[2] ELSE b[2]
        IN  /\ img1.width = w /\ img1.height = h
            /\ img2.width = w /\ img2.height = h
            /\ DOMAIN img1.pixels = Coords(w, h)
            /\ DOMAIN img2.pixels = Coords(w, h)
            /\ DOMAIN diff_pixels = Coords(w, h)
            /\ w <= a[1] /\ w <= b[1] /\ h <= a[2] /\ h <= b[2]

\* No step ever makes a side of an image longer.
C14_NeverUpscaled ==
    /\ img1'.width <= img1.width /\ img1'.height <= img1.height
    /\ img2'.width <= img2.width /\ img2'.height <= img2.height

C14_MinCanvas == [](C14_Canvas) /\ [][C14_NeverUpscaled]_vars

C14_Witness ==
    /\ ppc = "done"
    /\ opened_sizes[1][1] < opened_sizes[2][1]
    /\ opened_sizes[1][2] > opened_sizes[2][2]
    /\ DOMAIN diff_pixels = Coords(opened_sizes[1][1], opened_sizes[2][2])

-----------------------------------------------------------------------------
(* Vocabulary of the claims about the run of a visual test.                 *)

Events(s) == {trace[s][n] : n \in 1..Len(trace[s])}

InFlight(s) == wpc[s] \notin {"none", "done"}

\* The run of s ends with this step.
RunEnds(s) == wpc[s] # "done" /\ wpc'[s] = "done"

\* The session was created and its row is gone: it has been deleted.
Deleted(s) == wpc[s] # "none" /\ RowsOf(audit_sessions, s) = {}

\* C15 (as claimed): a run in which an image failed to load ends with the
\* session at status "error" and without a result of the session.
C15_EndsMarkedError ==
    [][\A s \in SessionIds :
          "open_failed" \in Events(s) /\ RunEnds(s) =>
              /\ \E r \in RowsOf(audit_sessions', s) : r.status = "error"
              /\ RowsOf(visual_results', s) = {}]_vars

\* C15 (amended): once an image has failed to load, no result of the
\* session is or will be persisted, and the step that handles the failure
\* leaves the session, if it has not been deleted meanwhile, with the status
\* "error" and the results as they were.
C15_NoResult ==
    \A s \in SessionIds :
        "open_failed" \in Events(s) =>
            RowsOf(visual_results, s) = {} /\ result[s] = -1

C15_Step ==
    \A s \in SessionIds :
        "open_failed" \in Events(s) /\ RunEnds(s) =>
            /\ \A r \in RowsOf(audit_sessions', s) : r.status = "error"
            /\ visual_results' = visual_results

C15_LoadFailureIsError == [](C15_NoResult) /\ [][C15_Step]_vars

C15_Witness ==
    \E s \in SessionIds :
        /\ wpc[s] = "done" /\ "open_failed" \in Events(s)
        /\ {"base.png", "compare.png"} \subseteq files[s]
        /\ \E r \in audit_sessions : r.session_id = s /\ r.status = "error"
        /\ RowsOf(visual_results, s) = {}

-----------------------------------------------------------------------------
\* C16: a run that captured both pages and closed the browser, for a session
\* that still exists, ends either with both the DOM diff report and the pixel result, or with
\* neither of them and the session at status "error".
C16_BothOrNeither ==
    [][\A s \in SessionIds :
          /\ RunEnds(s) /\ wpc[s] \notin Capturing
          /\ RowsOf(audit_sessions', s) # {}
          =>
              \/ /\ "diff_report.json" \in files'[s]
                 /\ RowsOf(visual_results', s) # {}
              \/ /\ "diff_report.json" \notin files'[s]
                 /\ RowsOf(visual_results', s) = {}
                 /\ \A r \in RowsOf(audit_sessions', s) : r.status = "error"]_vars

\* C17: the step that handles a failed navigation, screenshot or snapshot
\* extraction leaves the session, if it still exists, at status "error",
\* without a result, a DOM diff report or a diff image.
C17_CaptureFailureIsError ==
    [][\A s \in SessionIds :
          "capture_failed" \notin Events(s) /\ RunEnds(s) /\ wpc[s] \in Capturing =>
              /\ \A r \in RowsOf(audit_sessions', s) : r.status = "error"
              /\ RowsOf(visual_results', s) = {}
              /\ files'[s] \cap {"diff_report.json", "diff.png"} = {}]_vars

\* C18: while a comparison is in flight for a session at status "stopped",
\* no step adds a result of the session or sets its status to "completed".
C18_StoppedIsAbandoned ==
    [][\A s \in SessionIds :
          /\ InFlight(s)
          /\ \E r \in RowsOf(audit_sessions, s) : r.status = "stopped"
          => /\ RowsOf(visual_results', s) \subseteq RowsOf(visual_results, s)
             /\ \A r \in RowsOf(audit_sessions', s) : r.status # "completed"]_vars

-----------------------------------------------------------------------------
RECURSIVE StepsOf(_)
StepsOf(t) ==
    IF t = <<>> THEN <<>>
    ELSE LET rest == StepsOf(Tail(t))
         IN  CASE Head(t) \in {"base", "compare", "dom_diff", "pixel_diff", "persist"}
                      -> <<Head(t)>> \o rest
               [] Head(t) = "dom_diff_failed" -> <<"dom_diff">> \o rest
               [] OTHER -> rest

C20_Order == <<"base", "compare", "dom_diff", "pixel_diff", "persist">>

-----------------------------------------------------------------------------
\* C21: when the background task of a session that still exists returns, the
\* comparison has one outcome: status "completed" with a persisted result,
\* or status "error" without one; it is not left in its initial status.
C21_SingleOutcome ==
    [][\A s \in SessionIds :
          RunEnds(s) /\ RowsOf(audit_sessions', s) # {} =>
              \A r \in RowsOf(audit_sessions', s) :
                  /\ r.status # DefaultStatus
                  /\ \/ r.status = "completed" /\ RowsOf(visual_results', s) # {}
                     \/ r.status = "error" /\ RowsOf(visual_results', s) = {}]_vars

-----------------------------------------------------------------------------
\* What belongs to the session t: its files, its rows in both tables and the
\* state of its run.
C22_Untouched(t) ==
    /\ files'[t] = files[t]
    /\ RowsOf(audit_sessions', t) = RowsOf(audit_sessions, t)
    /\ RowsOf(visual_results', t) = RowsOf(visual_results, t)
    /\ wpc'[t] = wpc[t] /\ result'[t] = result[t]
    /\ trace'[t] = trace[t] /\ printed'[t] = printed[t]
    /\ diff_report'[t] = diff_report[t]

\* The row a step commits for s carries the score its own pixel diff added.
C22_OwnResult(s) ==
    RowsOf(visual_results', s) \subseteq
        RowsOf(visual_results, s) \cup {[session_id |-> s, diff_score |-> result[s]]}

\* C22: every step belongs to one session and leaves what belongs to the
\* other sessions as it was; the result it persists is the one its own run
\* computed, so a run ends as it would alone.
C22_Independent ==
    [][\E s \in SessionIds :
          /\ \A t \in SessionIds \ {s} : C22_Untouched(t)
          /\ C22_OwnResult(s)]_vars

C22_Witness ==
    \E s, t \in SessionIds :
        /\ s # t
        /\ wpc[s] = "done" /\ wpc[t] = "done"
        /\ [session_id |-> s, diff_score |-> 100] \in visual_results
        /\ RowsOf(visual_results, t) = {}
        /\ \E r \in RowsOf(audit_sessions, s) : r.status = "completed"
        /\ \E r \in RowsOf(audit_sessions, t) : r.status = "error"
        /\ "diff_report.json" \in files[s] /\ "diff.png" \notin files[t]

-----------------------------------------------------------------------------
(* Vocabulary of the claims about the extraction script.                    *)

\* The positions of elements that hold the record of node i.
RecordsOf(i) == {n \in 1..Len(elements) : elements[n].node = i}

\* What C23 asks of a node for it to be emitted.
C23_Qualifies(i) ==
    LET nd == body.node[i]
    IN  /\ nd.width # 0 /\ nd.height # 0
        /\ nd.display # "none"
        /\ nd.visibility # "hidden"
        /\ nd.hasText \/ nd.tagName \in {"IMG", "BUTTON", "INPUT"}

\* C23: the list never holds a record of a node that does not qualify, and
\* the returned list holds exactly one record of every node under the body
\* that does.
C23_EmitsIffQualifies ==
    /\ \A n \in 1..Len(elements) :
          elements[n].node \in NodesOf(body) /\ C23_Qualifies(elements[n].node)
    /\ xpc = "returned" =>
          \A i \in NodesOf(body) :
              Cardinality(RecordsOf(i)) = IF C23_Qualifies(i) THEN 1 ELSE 0

C23_Witness ==
    /\ xpc = "returned"
    /\ Len(body.parent) = 3
    /\ \E i \in NodesOf(body) : ~body.node[i].hasText /\ RecordsOf(i) # {}
    /\ \E i \in NodesOf(body) : body.node[i].visibility = "hidden" /\ RecordsOf(i) = {}
    /\ \E i \in NodesOf(body) : body.node[i].hasText /\ body.node[i].width = 0

\* C24: a node whose style or rect cannot be read is skipped and nothing
\* else: the extraction never fails as a whole, and the returned list holds
\* a record of every other node that qualifies.
C24_ThrowSkipsNode ==
    /\ xpc # "raised"
    /\ xpc = "returned" =>
          \A i \in NodesOf(body) :
              C23_Qualifies(i) /\ ~body.node[i].throws => RecordsOf(i) # {}

\* The nodes of the subtree of i, then of the subtrees of the set S of
\* siblings, in pre-order, depth first.
RECURSIVE PreOrder(_, _), Forest(_, _)
PreOrder(b, i) == <<i>> \o Forest(b, ChildrenOf(b, i))
Forest(b, S) ==
    IF S = {} THEN <<>>
    ELSE PreOrder(b, Least(S)) \o Forest(b, S \ {Least(S)})

DocumentOrder == Forest(body, ChildrenOf(body, 0))

\* The rank of every node in document order (0: the body).
Position ==
    LET order == DocumentOrder
    IN  [i \in 0..Len(body.parent) |->
            IF i = 0 THEN 0 ELSE CHOOSE n \in 1..Len(order) : order[n] = i]

C25_Ordered ==
    LET pos == Position
    IN  /\ Len(elements) <= Len(body.parent)
        /\ \A m, n \in 1..Len(elements) :
              m < n => pos[elements[m].node] < pos[elements[n].node]

\* A turn of the loop takes the walker to the node that follows in document
\* order, so the walk ends after as many turns as there are nodes.
C25_Step ==
    LET pos == Position
    IN  /\ currentNode' # currentNode => pos[currentNode'] = pos[currentNode] + 1
        /\ xpc = "walking" /\ xpc' = "returned" => pos[currentNode] = Len(body.parent)

\* C25: the records stand in document order, the pre-order depth-first
\* order of the element nodes under the body, and the walk is finite.
C25_InDocumentOrder == [](C25_Ordered) /\ [][C25_Step]_vars

C25_Witness ==
    /\ xpc = "returned"
    /\ body.parent = <<0, 0, 1>>
    /\ Len(elements) = 3
    /\ elements[1].node = 1 /\ elements[2].node = 3 /\ elements[3].node = 2

-----------------------------------------------------------------------------
\* C26: whenever the results endpoint can answer for a visual session, a
\* non-empty dom_diffs list comes with at least one pixel result.
C26_NoDomDiffWithoutResult ==
    \A s \in SessionIds :
        LoopFree /\ RowsOf(audit_sessions, s) # {} =>
            (get_any_results(s).dom_diffs # <<>> => get_any_results(s).results # {})

-----------------------------------------------------------------------------
\* The number of entries of diffs of the type.
CountOf(type) == Cardinality({n \in 1..Len(diffs) : diffs[n].type = type})

\* The matched pairs so far: the base elements taken out of the working set.
Matched == Len(base_elements) - Cardinality(DOMAIN unmatched_base)

\* C27 (at the return): with m matched pairs there are |compare| - m added
\* entries, |base| - m removed entries and at most m style_change entries, so
\* added minus removed is |compare| - |base| and the list is no longer than
\* |base| + |compare|.
C27_Counts ==
    Returned =>
        /\ CountOf("added") = Len(compare_elements) - Matched
        /\ CountOf("removed") = Len(base_elements) - Matched
        /\ CountOf("style_change") <= Matched
        /\ CountOf("added") - CountOf("removed")
             = Len(compare_elements) - Len(base_elements)
        /\ Len(diffs) <= Len(base_elements) + Len(compare_elements)

\* C27 (each step of the loop): a compare element is matched to at most one
\* base element, one that no earlier compare element was matched to, and it
\* leaves the working set with the match.
C27_Injective ==
    pc = "compare" =>
        /\ k' = k + 1
        /\ IF match_index' = -1
           THEN unmatched_base' = unmatched_base
           ELSE /\ match_index' \in DOMAIN unmatched_base
                /\ DOMAIN unmatched_base' = (DOMAIN unmatched_base) \ {match_index'}

\* C27: the matching is injective and conserves the counts of the entries.
C27_MatchingConservesCounts == [](C27_Counts) /\ [][C27_Injective]_vars

C27_Witness ==
    /\ Returned
    /\ Len(base_elements) = 2 /\ Len(compare_elements) = 2
    /\ Matched = 1
    /\ CountOf("added") = 1 /\ CountOf("removed") = 1 /\ CountOf("style_change") = 1

-----------------------------------------------------------------------------
\* The diff image lines 3114-3125 paint for two images of the same size.
DiffImageOf(a, b) ==
    [c \in Coords(a.width, a.height) |->
        IF OverThreshold(Distance(a.pixels[c], b.pixels[c]))
        THEN Highlight
        ELSE Dimmed(a.pixels[c])]

\* C28: the two images given in the other order are resized to the same
\* canvas and score the same, whatever the diff image of the other order is.
C28_ScoreSymmetric ==
    /\ ppc = "opened" =>
          /\ Min2(img1.width, img2.width) = Min2(img2.width, img1.width)
          /\ Min2(img1.height, img2.height) = Min2(img2.height, img1.height)
    /\ Scored =>
          /\ diff_score = DiffScoreOf(img1, img2)
          /\ diff_score = DiffScoreOf(img2, img1)

C28_Witness ==
    /\ Scored
    /\ img1 # img2
    /\ diff_score = 50
    /\ diff_pixels = DiffImageOf(img1, img2)
    /\ diff_pixels # DiffImageOf(img2, img1)

-----------------------------------------------------------------------------
\* Line 3125 for every value a channel of an RGB pixel can have.
DimAll == [c \in 0..255 |-> DimChannel(c)]

\* The pixels of the diff image that are the red highlight.
RedPixels == {c \in DOMAIN diff_pixels : diff_pixels[c] = <<255, 0, 0>>}

\* C30 (the dimming): a dimmed channel is in 0..76, whatever the channel.
C30_DimRange == \A c \in 0..255 : DimAll[c] \in 0..76

\* C30 (each step of the loops): the pixel the step paints is red exactly
\* when the step counts it.
C30_Step ==
    ppc = "loop" /\ px < total_pixels =>
        LET c == CoordAt(px, img1.width)
        IN  (diff_pixels'[c] = <<255, 0, 0>>) <=> (diff_count' = diff_count + 1)

\* C30 (every state of a run): every pixel of the diff image is (255,0,0) or
\* has its three channels in 0..76, and the red pixels are as many as the
\* pixels counted.
C30_Pixels ==
    /\ C30_DimRange
    /\ ppc \in {"loop", "done"} =>
          /\ \A c \in DOMAIN diff_pixels :
                \/ diff_pixels[c] = <<255, 0, 0>>
                \/ \A i \in 1..3 : diff_pixels[c][i] \in 0..76
          /\ Cardinality(RedPixels) = diff_count
    /\ Scored =>
          \A c \in AllCoords : c \in RedPixels <=> c \in Divergent

\* C30: red is painted for the divergent pixels only, and every other pixel
\* is dimmed below 77.
C30_RedIsUnambiguous == [](C30_Pixels) /\ [][C30_Step]_vars

C30_Witness ==
    /\ Scored
    /\ \E c \in AllCoords :
          /\ img1.pixels[c] = <<255, 0, 0>> /\ img2.pixels[c] = <<255, 0, 0>>
          /\ diff_pixels[c] = <<76, 0, 0>>
    /\ \E c \in AllCoords : diff_pixels[c] = <<255, 0, 0>>
    /\ diff_count = 1

-----------------------------------------------------------------------------
\* The session row of s has the status.
HasStatus(rows, s, status) == \E r \in RowsOf(rows, s) : r.status = status

\* C29 (every state): a session has at most one result; a session that
\* process_image_diff completed has exactly one for as long as its row
\* exists; and no result is there without the row of its session.
C29_State ==
    \A s \in SessionIds :
        /\ Cardinality(RowsOf(visual_results, s)) <= 1
        /\ "persist" \in Events(s) /\ ~Deleted(s) =>
              Cardinality(RowsOf(visual_results, s)) = 1
        /\ HasStatus(audit_sessions, s, "completed") =>
              Cardinality(RowsOf(visual_results, s)) = 1
        /\ RowsOf(visual_results, s) # {} => RowsOf(audit_sessions, s) # {}

\* C29 (every step): the step that commits the result of a session is the
\* step that turns its row to "completed", and the row is there before and
\* after it.
C29_Step ==
    \A s \in SessionIds :
        LET added == RowsOf(visual_results', s) \ RowsOf(visual_results, s)
            turned == /\ HasStatus(audit_sessions', s, "completed")
                      /\ ~HasStatus(audit_sessions, s, "completed")
        IN  /\ added # {} <=> turned
            /\ added # {} =>
                  /\ RowsOf(audit_sessions, s) # {}
                  /\ \A r \in RowsOf(audit_sessions', s) : r.completed = 1

=============================================================================
